---- MODULE Spec2Model ----
(***************************************************************************)
(* Optimus agent core: the agent loop (core/agent_loop.py), the planner    *)
(* (core/planner.py), the memory store (core/memory.py) and the skill      *)
(* registry (skills/__init__.py), as one state machine.                    *)
(*                                                                         *)
(* Representation.  A Python str is a sequence of text chunks, so that     *)
(* concatenation is \o and str() of a non-string is a real conversion.     *)
(* A Python dict with significant key order (Memory.data) is a record      *)
(* [keys, val]: keys is the insertion order, val the mapping.  A JSON      *)
(* value stored under a goal is List(entries) when it is an array, or a    *)
(* scalar record when the persisted document was not written by this       *)
(* program.                                                                *)
(***************************************************************************)
EXTENDS Integers, Sequences, FiniteSets, TLC

VARIABLES
    registry,        \* SkillRegistry.registry: skill name -> capability
    data,            \* Memory.data of the agent loop's global memory instance
    disk,            \* the persisted memory document (file at Memory.path)
    clock,           \* source of datetime.now() timestamps
    faults_left,     \* number of _save calls that may still fail
    last,            \* the last call made by the program's user: its name
    pc,              \* position of run_agent: idle, Started, Planning, Executing, Completed, Aborted, Escaped
    goal,            \* run_agent's goal argument
    max_iterations,  \* run_agent's max_iterations argument
    prior_context,   \* run_agent's prior_context local
    plan,            \* run_agent's plan local
    i,               \* run_agent's loop index (1-based)
    success_count,   \* run_agent's success_count local
    ret,             \* run_agent's return value, NoValue until it returns
    log,             \* what this run has done so far, in order (for a registry used
                     \* on its own: the register calls since the last reload)
    data0,           \* Memory.data as it was when run_agent was called (with two
                     \* Memory instances on one document: the second one's data)
    call             \* the last call made on a Memory or planner of its own, with what it gave

vars == <<registry, data, disk, clock, faults_left, last,
          pc, goal, max_iterations, prior_context, plan, i, success_count, ret, log, data0,
          call>>

runVars == <<pc, goal, max_iterations, prior_context, plan, i, success_count, ret, log, data0>>

-----------------------------------------------------------------------------
(* Bounds of the model *)

\* longest array of candidate steps the model capability is made to answer with
MaxPlan == 4
\* max_iterations arguments tried: 0..MaxIterTried, and the default
MaxIterTried == 2
\* a run starts, and the Memory API stores, only while fewer stores than this
\* have been made; so do the calls that no later run or store can tell apart
\* (the reads of the memory, register and reload_skills)
ApiStores == 2
\* _save calls that may fail in one behaviour
MaxSaveFaults == 1
\* stores made on a Memory used on its own
MemStores == 3
\* longest plan the planner is made to return to a registry holding only echo
MaxForcedPlan == 2
\* a run that follows other runs starts only while fewer stores than this have
\* been made
FeedbackStores == 3
\* goals in the document the agent's memory is loaded from, for get_agent_status
MaxSavedGoals == 6
\* register calls made on a registry used on its own between two reloads
MaxRegisters == 3

(* Program constants *)

\* run_agent(goal, max_iterations = 10)
DefaultMaxIterations == 10
\* get_recent_context(goal, max_entries = 5)
DefaultMaxEntries == 5
\* result_preview = result[:200] + "..." if len(result) > 200
PreviewLen == 200
\* get_agent_status: memory.get_all_goals()[-5:]
RecentGoals == 5

-----------------------------------------------------------------------------
(* Values *)

NoValue == [none |-> TRUE]
EmptyMap == [k \in {} |-> NoValue]

\* Goals are free text; GoalChars gives the characters of each goal used here.
Goals == {"demo", "Improve io"}

GoalChars(g) ==
    CASE g = "demo" -> <<"d", "e", "m", "o">>
      [] g = "Improve io" -> <<"I", "m", "p", "r", "o", "v", "e", " ", "i", "o">>
      [] g = "Patch it" -> <<"P", "a", "t", "c", "h", " ", "i", "t">>
      [] g = "IMPROVE" -> <<"I", "M", "P", "R", "O", "V", "E">>

\* A str holding the text t.
Text(t) == <<t>>

\* Python values a capability can return, and str() of them.
StrValue(s) == [str |-> s]
IntValue(n) == [int |-> n]

\* variant: repr() in place of str(), which puts a string in quotes
Str_Repr(v) ==
    IF "int" \in DOMAIN v THEN Text(ToString(v.int)) ELSE Text("'") \o v.str \o Text("'")

\* str(result), agent_loop.py line 95
Str(v) == IF "int" \in DOMAIN v THEN Text(ToString(v.int)) ELSE v.str

\* A raised exception; msg is str(e).
Exc(type, msg) == [type |-> type, msg |-> msg]

\* A JSON array under a goal, and the scalars a foreign document can hold instead.
List(entries) == [entries |-> entries]
JsonNull == [scalar |-> "null"]
JsonNumber == [scalar |-> "7"]
IsList(v) == "entries" \in DOMAIN v
\* variant: every value counts as true, so an empty bucket is formatted
Truthy_Always(v) == TRUE

\* Python truth value of a JSON value: None and [] are falsy, 7 is truthy
Truthy(v) == IF IsList(v) THEN v.entries # <<>> ELSE v = JsonNumber

-----------------------------------------------------------------------------
(* Python dict with insertion order *)

EmptyDict == [keys |-> <<>>, val |-> EmptyMap]

Has(d, k) == k \in DOMAIN d.val

RECURSIVE Without(_, _)
Without(s, k) ==
    IF s = <<>> THEN <<>>
    ELSE IF Head(s) = k THEN Without(Tail(s), k)
    ELSE <<Head(s)>> \o Without(Tail(s), k)

\* d[k] = v
Put(d, k, v) ==
    [keys |-> IF Has(d, k) THEN d.keys ELSE Append(d.keys, k),
     val |-> [x \in DOMAIN d.val \cup {k} |-> IF x = k THEN v ELSE d.val[x]]]

\* del d[k]
Del(d, k) ==
    [keys |-> Without(d.keys, k),
     val |-> [x \in DOMAIN d.val \ {k} |-> d.val[x]]]

-----------------------------------------------------------------------------
(* Memory store: core/memory.py *)

\* The persisted document: no file, a file json.load rejects, or a JSON document.
Absent == [file |-> "absent"]
Corrupt == [file |-> "corrupt"]
Doc(d) == [file |-> "json", doc |-> d]

\* variant: the document is never read
Load_Forgetful(dk) == EmptyDict

\* Memory._load
Load(dk) == IF dk.file = "json" THEN dk.doc ELSE EmptyDict

\* Memory._save: open(path, 'w') then json.dump.  "ok" writes the whole store;
\* "open_failed" fails before the file is touched; "write_failed" fails after
\* open has truncated it.  The exception is logged, never raised.
SaveOutcomes == {"ok", "open_failed", "write_failed"}

\* variant: the document is left as it was
Save_Nothing(d, dk, outcome) == dk

Save(d, dk, outcome) ==
    CASE outcome = "ok" -> Doc(d)
      [] outcome = "open_failed" -> dk
      [] outcome = "write_failed" -> Corrupt

\* The entry store() builds
Entry(step, result, ts) == [step |-> step, result |-> result, timestamp |-> ts]

\* self.data[goal].append raises AttributeError when the value is not a list
StoreRaises(d, g) == Has(d, g) /\ ~IsList(d.val[g])

\* variant: the entry inserted at the front of the bucket
StoreAppend_Prepend(d, g, entry) ==
    LET d1 == IF ~Has(d, g) THEN Put(d, g, List(<<>>)) ELSE d
    IN  Put(d1, g, List(<<entry>> \o d1.val[g].entries))

\* variant: goals deduplicated, every goal stored in the store's first bucket
StoreAppend_Deduplicated(d, g, entry) ==
    LET k == IF d.keys = <<>> THEN g ELSE d.keys[1]
    IN  LET d1 == IF ~Has(d, k) THEN Put(d, k, List(<<>>)) ELSE d
        IN  Put(d1, k, List(Append(d1.val[k].entries, entry)))

\* variant: the bucket overwritten by the new entry
StoreAppend_Replace(d, g, entry) == Put(d, g, List(<<entry>>))

\* store(): if goal not in self.data: self.data[goal] = []; self.data[goal].append(entry)
StoreAppend(d, g, entry) ==
    LET d1 == IF ~Has(d, g) THEN Put(d, g, List(<<>>)) ELSE d
    IN  Put(d1, g, List(Append(d1.val[g].entries, entry)))

\* variant: an append whose save failed is taken back
Store_Transactional(d, dk, g, step, result, ts, outcome) ==
    IF StoreRaises(d, g)
    THEN [raised |-> TRUE, data |-> d, disk |-> dk,
          exc |-> Exc("AttributeError", Text("object has no attribute 'append'"))]
    ELSE LET d2 == StoreAppend(d, g, Entry(step, result, ts))
         IN  [raised |-> FALSE, data |-> IF outcome = "ok" THEN d2 ELSE d,
              disk |-> Save(d2, dk, outcome)]

\* variant: the document read again before the append, so the rewrite starts
\* from what is persisted
Store_Reloading(d, dk, g, step, result, ts, outcome) ==
    IF StoreRaises(Load(dk), g)
    THEN [raised |-> TRUE, data |-> d, disk |-> dk,
          exc |-> Exc("AttributeError", Text("object has no attribute 'append'"))]
    ELSE LET d2 == StoreAppend(Load(dk), g, Entry(step, result, ts))
         IN  [raised |-> FALSE, data |-> d2, disk |-> Save(d2, dk, outcome)]

\* Memory.store as a whole: the exception it raises, or the store and document after it
Store(d, dk, g, step, result, ts, outcome) ==
    IF StoreRaises(d, g)
    THEN [raised |-> TRUE, data |-> d, disk |-> dk,
          exc |-> Exc("AttributeError", Text("object has no attribute 'append'"))]
    ELSE LET d2 == StoreAppend(d, g, Entry(step, result, ts))
         IN  [raised |-> FALSE, data |-> d2, disk |-> Save(d2, dk, outcome)]

\* Memory.retrieve: self.data.get(goal, [])
Retrieve(d, g) == IF Has(d, g) THEN d.val[g] ELSE List(<<>>)

\* variant: the lookup made with setdefault, which files the empty list it returns
AfterRetrieve_SetDefault(d, g) == IF Has(d, g) THEN d ELSE Put(d, g, List(<<>>))

\* self.data after retrieve: dict.get only looks the goal up
AfterRetrieve(d, g) == d

\* entries[-max_entries:] on a list: -0 is 0, so max_entries = 0 slices from the start
SliceFromEnd(s, n) ==
    IF n = 0 \/ n >= Len(s) THEN s ELSE SubSeq(s, Len(s) - n + 1, Len(s))

\* Lengths of results: LongText stands for a text of PreviewLen + 1 characters,
\* every other chunk for a single character; only len(result) > PreviewLen is read.
LongText == "<long text>"
ChunkLen(c) == IF c = LongText THEN PreviewLen + 1 ELSE 1

RECURSIVE StrLen(_)
StrLen(s) == IF s = <<>> THEN 0 ELSE ChunkLen(Head(s)) + StrLen(Tail(s))

\* result[:200]: the chunks that fit, the chunk that crosses the limit cut short
RECURSIVE Prefix(_, _)
Prefix(s, n) ==
    IF s = <<>> \/ n <= 0 THEN <<>>
    ELSE IF ChunkLen(Head(s)) <= n
         THEN <<Head(s)>> \o Prefix(Tail(s), n - ChunkLen(Head(s)))
         ELSE <<"<cut>">>

\* result[:200] + "..." if len(result) > 200 else result
Preview(result) ==
    IF StrLen(result) > PreviewLen THEN Prefix(result, PreviewLen) \o Text("...")
    ELSE result

\* entry["step"].get("action", "unknown")
StepDesc(step) == IF "action" \in DOMAIN step THEN step.action ELSE "unknown"

ContextLine(entry) ==
    Text("- ") \o Text(StepDesc(entry.step)) \o Text(": ") \o Preview(entry.result)

RECURSIVE JoinLines(_)
JoinLines(lines) ==
    IF lines = <<>> THEN <<>>
    ELSE IF Len(lines) = 1 THEN lines[1]
    ELSE lines[1] \o Text("\n") \o JoinLines(Tail(lines))

NoPriorContext == Text("No prior context available.")

\* Memory.get_recent_context: the string it returns, or the exception it raises
GetRecentContext(d, g, max_entries) ==
    LET entries == Retrieve(d, g)
    IN  IF ~Truthy(entries) THEN [raised |-> FALSE, value |-> NoPriorContext]
        ELSE IF ~IsList(entries)
        THEN [raised |-> TRUE,
              exc |-> Exc("TypeError", Text("object is not subscriptable"))]
        ELSE LET recent == SliceFromEnd(entries.entries, max_entries)
             IN  [raised |-> FALSE,
                  value |-> JoinLines([k \in 1..Len(recent) |-> ContextLine(recent[k])])]

\* variant: clearing one goal empties the whole store
ClearGoalData_All(d, g) == IF Has(d, g) THEN EmptyDict ELSE d

\* variant: the bucket emptied and left in the store
ClearGoalData_Empty(d, g) == IF Has(d, g) THEN Put(d, g, List(<<>>)) ELSE d

\* Memory.clear_goal: the store after it (del self.data[goal] when present)
ClearGoalData(d, g) == IF Has(d, g) THEN Del(d, g) ELSE d

\* Memory.get_all_goals
GetAllGoals(d) == d.keys

\* variant: one counted per goal
SumLen_Goals(d, ks) == Len(ks)

RECURSIVE SumLen(_, _)
SumLen(d, ks) ==
    IF ks = <<>> THEN 0 ELSE Len(d.val[Head(ks)].entries) + SumLen(d, Tail(ks))

\* Memory.get_stats: len() of a value that is not a list raises TypeError
GetStats(d) ==
    IF \E g \in DOMAIN d.val : ~IsList(d.val[g])
    THEN [raised |-> TRUE, exc |-> Exc("TypeError", Text("object has no len()"))]
    ELSE [raised |-> FALSE,
          value |-> [total_goals |-> Len(d.keys), total_entries |-> SumLen(d, d.keys)]]

-----------------------------------------------------------------------------
(* Skill registry: skills/__init__.py *)

\* The callables: the two built-in skills, and a callable registered at run time
GenerateTaskCode == "generate_task_code()"
TraceVariableFlow == "trace_variable_flow()"
CustomSkill == "custom_skill()"
\* a callable registered at run time that returns its task argument: def echo(task): return task
EchoSkill == "echo()"

\* variant: a name already registered keeps its first capability
Register_KeepFirst(reg, name, func) ==
    [x \in DOMAIN reg \cup {name} |-> IF x \in DOMAIN reg THEN reg[x] ELSE func]

\* SkillRegistry.register: self.registry[name] = func
Register(reg, name, func) ==
    [x \in DOMAIN reg \cup {name} |-> IF x = name THEN func ELSE reg[x]]

\* SkillRegistry._load_skills: both imports come before both registrations, and
\* an ImportError is logged and leaves the registry as it was
LoadSkills(reg, importOk) ==
    IF importOk
    THEN Register(Register(reg, "generate_task_code", GenerateTaskCode),
                  "trace_variable_flow", TraceVariableFlow)
    ELSE reg

\* variant: the built-in skills loaded again without clearing the mapping
ReloadSkills_NoClear(reg, importOk) == LoadSkills(reg, importOk)

\* SkillRegistry.reload_skills: self.registry.clear(); self._load_skills()
ReloadSkills(reg, importOk) == LoadSkills(EmptyMap, importOk)

\* variant: an unknown name resolves to a built-in callable
Resolve_Lenient(reg, name) ==
    IF name \notin DOMAIN reg
    THEN [raised |-> FALSE, value |-> GenerateTaskCode]
    ELSE [raised |-> FALSE, value |-> reg[name]]

\* variant: an unknown name gives None, as dict.get would
Resolve_OrNone(reg, name) ==
    IF name \notin DOMAIN reg
    THEN [raised |-> FALSE, value |-> NoValue]
    ELSE [raised |-> FALSE, value |-> reg[name]]

\* SkillRegistry.resolve: the callable, or the ValueError it raises
Resolve(reg, name) ==
    IF name \notin DOMAIN reg
    THEN [raised |-> TRUE,
          exc |-> Exc("ValueError",
                      Text("Skill '") \o Text(name) \o Text("' not found in registry"))]
    ELSE [raised |-> FALSE, value |-> reg[name]]

\* SkillRegistry.list_skills
ListSkills(reg) == DOMAIN reg

-----------------------------------------------------------------------------
(* Capabilities: what calling a skill function with the step's params can do *)

Returned(v) == [raised |-> FALSE, value |-> v]
Raised(e) == [raised |-> TRUE, exc |-> e]

TraceParams == {"file", "file_path", "variable_name", "variable"}

\* generate_task_code(task, context_file=None, max_tokens=1024, **kwargs): TypeError
\* without task, otherwise a string (its own errors are returned as text).
\* trace_variable_flow(file=None, file_path=None, variable_name=None, variable=None):
\* TypeError on any other keyword, otherwise a string.
\* A callable registered at run time may return any value or raise; echo(task)
\* returns its argument and, like any def, raises TypeError without it.
Invoke(func, params) ==
    CASE func = GenerateTaskCode ->
            IF "task" \in DOMAIN params
            THEN {Returned(StrValue(Text("# generated code")))}
            ELSE {Raised(Exc("TypeError", Text("missing 1 required positional argument: 'task'")))}
      [] func = TraceVariableFlow ->
            IF DOMAIN params \subseteq TraceParams
            THEN {Returned(StrValue(Text("Variable flow report")))}
            ELSE {Raised(Exc("TypeError", Text("got an unexpected keyword argument")))}
      [] func = CustomSkill ->
            {Returned(IntValue(7)), Raised(Exc("RuntimeError", Text("skill failed")))}
      [] func = EchoSkill ->
            IF DOMAIN params = {"task"}
            THEN {Returned(params.task)}
            ELSE {Raised(Exc("TypeError", Text("missing 1 required positional argument: 'task'")))}

-----------------------------------------------------------------------------
(* Planner: core/planner.py *)

\* The model's raw response as tokens: brackets, prose, and JSON values that
\* stand between brackets (separating commas are not shown).
LB == [tok |-> "["]
RB == [tok |-> "]"]
Prose == [tok |-> "prose"]
Item(v) == [tok |-> "value", value |-> v]

\* JSON values inside a candidate array: an object is the mapping of its
\* fields, anything else is a scalar record.
NonDict(t) == [scalar |-> t]
IsDict(v) == "scalar" \notin DOMAIN v

\* call_model: any exception of the model is logged and replaced by the text
\* "Error: Unable to generate response"
CallModel(outcome) == IF outcome.raised THEN <<Prose>> ELSE outcome.value

\* response.find('[') and response.rfind(']'), 1-based, 0 for Python's -1
Find(resp, t) ==
    IF \E k \in 1..Len(resp) : resp[k] = t
    THEN CHOOSE k \in 1..Len(resp) : resp[k] = t /\ \A j \in 1..(k - 1) : resp[j] # t
    ELSE 0

RFind(resp, t) ==
    IF \E k \in 1..Len(resp) : resp[k] = t
    THEN CHOOSE k \in 1..Len(resp) : resp[k] = t /\ \A j \in (k + 1)..Len(resp) : resp[j] # t
    ELSE 0

\* The elements of a JSON array whose "[" stands before position pos: the
\* elements and the position after the closing "]", or a decode error.
RECURSIVE ParseElements(_, _, _)
ParseElements(toks, pos, acc) ==
    IF pos > Len(toks) THEN [ok |-> FALSE]
    ELSE IF toks[pos] = RB THEN [ok |-> TRUE, items |-> acc, next |-> pos + 1]
    ELSE IF toks[pos] = Prose THEN [ok |-> FALSE]
    ELSE IF toks[pos] = LB
         THEN LET sub == ParseElements(toks, pos + 1, <<>>)
              IN  IF sub.ok
                  THEN ParseElements(toks, sub.next, Append(acc, NonDict("array")))
                  ELSE [ok |-> FALSE]
    ELSE ParseElements(toks, pos + 1, Append(acc, toks[pos].value))

\* json.loads(json_str): the decoded array, or JSONDecodeError (also for
\* trailing data after the value)
JsonLoads(toks) ==
    IF toks = <<>> \/ toks[1] # LB THEN [ok |-> FALSE]
    ELSE LET r == ParseElements(toks, 2, <<>>)
         IN  IF r.ok /\ r.next = Len(toks) + 1 THEN [ok |-> TRUE, items |-> r.items]
             ELSE [ok |-> FALSE]

\* variant: a response without a readable array counts as an empty array
ParsePlanResponse_Lenient(response) ==
    LET start_idx == Find(response, LB)
        end_idx == RFind(response, RB)
    IN  IF start_idx = 0 \/ end_idx = 0
        THEN Returned(<<>>)
        ELSE LET steps == JsonLoads(SubSeq(response, start_idx, end_idx))
             IN  IF ~steps.ok THEN Returned(<<>>) ELSE Returned(steps.items)

\* _parse_plan_response: the candidate array, or the ValueError it raises
ParsePlanResponse(response) ==
    LET start_idx == Find(response, LB)
        end_idx == RFind(response, RB)
    IN  IF start_idx = 0 \/ end_idx = 0
        THEN Raised(Exc("ValueError", Text("No JSON array found in response")))
        ELSE LET steps == JsonLoads(SubSeq(response, start_idx, end_idx))
             IN  IF ~steps.ok
                 THEN Raised(Exc("ValueError", Text("Invalid JSON in response")))
                 ELSE Returned(steps.items)

\* the falsy actions of `if not action`: a missing field (None) and ""
ActionOf(step) == IF "action" \in DOMAIN step THEN step.action ELSE ""

\* variant: only a missing params is replaced, one that is not a dict is kept
CoerceParams_AbsentOnly(step) ==
    [x \in DOMAIN step \cup {"params"} |->
        IF x = "params" /\ "params" \notin DOMAIN step THEN EmptyMap ELSE step[x]]

\* "params" not in step, or not a dict: step["params"] = {}
CoerceParams(step) ==
    [x \in DOMAIN step \cup {"params"} |->
        IF x = "params"
        THEN IF "params" \in DOMAIN step /\ IsDict(step.params) THEN step.params
             ELSE EmptyMap
        ELSE step[x]]

\* variant: a step is kept whether or not its action is registered
ValidateSteps_KeepUnknown(steps, available_skills) ==
    LET named == SelectSeq(steps, LAMBDA e : IsDict(e) /\ ActionOf(e) # "")
    IN  [k \in 1..Len(named) |-> CoerceParams(named[k])]

\* _validate_steps
RECURSIVE ValidateSteps(_, _)
ValidateSteps(steps, available_skills) ==
    IF steps = <<>> THEN <<>>
    ELSE LET step == Head(steps)
             rest == ValidateSteps(Tail(steps), available_skills)
         IN  IF ~IsDict(step) THEN rest
             ELSE IF ActionOf(step) = "" THEN rest
             ELSE IF ActionOf(step) \notin available_skills THEN rest
             ELSE <<CoerceParams(step)>> \o rest

\* goal.lower()
UpperCase == <<"A", "B", "C", "D", "E", "F", "G", "H", "I", "J", "K", "L", "M",
               "N", "O", "P", "Q", "R", "S", "T", "U", "V", "W", "X", "Y", "Z">>
LowerCase == <<"a", "b", "c", "d", "e", "f", "g", "h", "i", "j", "k", "l", "m",
               "n", "o", "p", "q", "r", "s", "t", "u", "v", "w", "x", "y", "z">>
LowerChar(c) ==
    IF \E k \in 1..Len(UpperCase) : UpperCase[k] = c
    THEN LowerCase[CHOOSE k \in 1..Len(UpperCase) : UpperCase[k] = c]
    ELSE c
\* variant: the goal compared as written
Lower_AsWritten(chars) == chars
Lower(chars) == [k \in 1..Len(chars) |-> LowerChar(chars[k])]

\* needle in hay
Contains(needle, hay) ==
    \E k \in 0..(Len(hay) - Len(needle)) : SubSeq(hay, k + 1, k + Len(needle)) = needle

\* _get_fallback_plan
GetFallbackPlan(g) ==
    IF Contains(<<"p", "a", "t", "c", "h">>, Lower(GoalChars(g)))
       \/ Contains(<<"i", "m", "p", "r", "o", "v", "e">>, Lower(GoalChars(g)))
    THEN << [action |-> "generate_task_code", params |-> [task |-> StrValue(Text(g))]],
            [action |-> "trace_variable_flow",
             params |-> [file |-> StrValue(Text("patch_engine.py"))]] >>
    ELSE << [action |-> "generate_task_code", params |-> [task |-> StrValue(Text(g))]] >>

\* variant: an empty validated plan is replaced by the fallback plan
PlanSteps_FallbackOnEmpty(reg, g, outcome) ==
    LET available_skills == ListSkills(reg)
        steps == ParsePlanResponse(CallModel(outcome))
    IN  IF steps.raised \/ ValidateSteps(steps.value, available_skills) = <<>>
        THEN GetFallbackPlan(g)
        ELSE ValidateSteps(steps.value, available_skills)

\* plan_steps, given what the model capability did: any exception of the try
\* block (here the ValueError of _parse_plan_response) gives the fallback plan
PlanSteps(reg, g, outcome) ==
    LET available_skills == ListSkills(reg)
        steps == ParsePlanResponse(CallModel(outcome))
    IN  IF steps.raised THEN GetFallbackPlan(g)
        ELSE ValidateSteps(steps.value, available_skills)

-----------------------------------------------------------------------------
(* Agent loop: core/agent_loop.py *)

\* variant: the exception text stored without the "Error: " prefix
ErrorMsg_Bare(e) == e.msg

\* error_msg = f"Error: {str(e)}"
ErrorMsg(e) == Text("Error: ") \o e.msg

\* variant: the emptiness test left out, so an empty plan enters the loop
PlanIsEmpty_Never(p) == FALSE

\* if not plan
PlanIsEmpty(p) == p = <<>>

\* variant: no cap, every step of the plan is executed
CapReached_Never(idx, cap) == FALSE

\* variant: the cap tested one step late
CapReached_OffByOne(idx, cap) == idx > cap + 1

\* if i > max_iterations: break
CapReached(idx, cap) == idx > cap

\* variant: the loop takes every second step
NextIndex_SkipOne(idx, success) == idx + 2

\* variant: a failed step leaves the loop, as a break would
NextIndex_BreakOnFailure(idx, success) ==
    IF success THEN idx + 1 ELSE idx + MaxPlan + 1

\* the for loop over enumerate(plan, 1) takes the next step whatever
\* _execute_step returned
NextIndex(idx, success) == idx + 1

\* success_rate = success_count / len(plan) if plan else 0, as a fraction
SuccessRate(count, p) ==
    IF p # <<>> THEN [num |-> count, den |-> Len(p)] ELSE [num |-> 0, den |-> 1]

\* variant: exactly half counts as success
ExceedsHalf_AtLeast(rate) == 2 * rate.num >= rate.den

\* return success_rate > 0.5
ExceedsHalf(rate) == 2 * rate.num > rate.den

\* variant: the handler re-raises what it caught
RunAgentExcept_Reraise(e) == Raised(e)

\* except Exception as e: logging.error(...); return False
RunAgentExcept(e) == Returned(FALSE)

Event(ev, idx) == [ev |-> ev, step |-> idx]
\* the call of the capability, with what it returned or raised
Invoked(idx, co) == [ev |-> "invoke", step |-> idx, out |-> co]

\* _execute_step(goal, step) as step number idx, given what the capability does
\* when called (co) and how a _save goes (so): whether an exception leaves
\* _execute_step, the boolean it returns, the store and document after it, and
\* the calls it made.
ExecuteStepOn(reg, d, dk, g, step, idx, ts, co, so) ==
    LET action == step.action
        params == IF "params" \in DOMAIN step THEN step.params ELSE EmptyMap
        skill_func == Resolve(reg, action)
        called == IF skill_func.raised THEN skill_func ELSE co
        st1 == Store(d, dk, g, step, Str(called.value), ts, so)
        tryRaised == called.raised \/ st1.raised
        e == IF called.raised THEN called.exc ELSE st1.exc
        st2 == Store(d, dk, g, step, ErrorMsg(e), ts, so)
        calls1 == <<Event("resolve", idx)>>
                  \o (IF skill_func.raised THEN <<>> ELSE <<Invoked(idx, co)>>)
                  \o (IF called.raised THEN <<>>
                      ELSE IF st1.raised THEN <<Event("store_raised", idx)>>
                      ELSE <<Event("store", idx)>>)
    IN  IF ~tryRaised
        THEN [raised |-> FALSE, success |-> TRUE, data |-> st1.data, disk |-> st1.disk,
              calls |-> calls1]
        ELSE IF ~st2.raised
        THEN [raised |-> FALSE, success |-> FALSE, data |-> st2.data, disk |-> st2.disk,
              calls |-> calls1 \o <<Event("store", idx)>>]
        ELSE [raised |-> TRUE, exc |-> st2.exc, data |-> d, disk |-> dk,
              calls |-> calls1 \o <<Event("store_raised", idx)>>]

Stored(calls) == \E k \in 1..Len(calls) : calls[k].ev = "store"

-----------------------------------------------------------------------------
(* Inputs *)

SkillNames == {"generate_task_code", "trace_variable_flow", "custom_skill"}

\* registrations made at run time through register()
RegisterChoices == {<<"custom_skill", CustomSkill>>}

MaxIterationsChoices == 0..MaxIterTried \cup {DefaultMaxIterations}

CustomStep == [action |-> "custom_skill", params |-> [n |-> IntValue(1)]]

ArrayOf(k) == <<LB>> \o [j \in 1..k |-> Item(CustomStep)] \o <<RB>>

\* MistralLLM._mock_response for a planning prompt
MockResponse ==
    << LB,
       Item([action |-> "generate_task_code",
             params |-> [task |-> StrValue(Text("improve error handling"))]]),
       Item([action |-> "trace_variable_flow",
             params |-> [file |-> StrValue(Text("patch_engine.py"))]]),
       RB >>

Responses ==
    {ArrayOf(k) : k \in 0..MaxPlan}
    \cup { MockResponse,
           <<Prose>>,
           <<RB, LB>>,
           <<LB, Item(CustomStep)>>,
           <<LB, LB, Item(CustomStep), RB, RB>>,
           << Prose, LB,
              Item([action |-> "custom_skill"]),
              Item(NonDict("text")),
              Item([action |-> "unknown_skill", params |-> EmptyMap]),
              Item([params |-> EmptyMap]),
              RB, Prose >> }

LlmOutcomes ==
    {Raised(Exc("RuntimeError", Text("model failed")))}
    \cup {Returned(r) : r \in Responses}

\* steps and results stored through the Memory API directly (demo.py)
ApiSteps == {[action |-> "demo_action", params |-> [test |-> StrValue(Text("value"))]]}
ApiResults == {Text("Demo result")}

ContextSizes == {0, 1, DefaultMaxEntries}

-----------------------------------------------------------------------------
(* Initial state: the module-level registry = SkillRegistry() and
   memory = Memory(), which loads the persisted document *)

IdleRun ==
    /\ pc = "idle"
    /\ goal = "demo"
    /\ max_iterations = DefaultMaxIterations
    /\ prior_context = NoValue
    /\ plan = <<>>
    /\ i = 0
    /\ success_count = 0
    /\ ret = NoValue
    /\ log = <<>>
    /\ data0 = EmptyDict

InitWith(documents, faults) ==
    /\ registry \in {LoadSkills(EmptyMap, ok) : ok \in BOOLEAN}
    /\ disk \in documents
    /\ data = Load(disk)
    /\ clock = 0
    /\ faults_left = faults
    /\ last = "init"
    /\ call = NoValue
    /\ IdleRun

\* documents this program leaves behind: none yet, one cut short by a failed
\* write, or a saved store
OwnDocuments == {Absent, Corrupt, Doc(EmptyDict)}

\* documents holding a JSON value that is not an array under a goal
ForeignDocuments ==
    {Doc(Put(EmptyDict, "demo", v)) : v \in {JsonNull, JsonNumber}}

Init == InitWith(OwnDocuments, 0)

InitForeign == InitWith(OwnDocuments \cup ForeignDocuments, 0)

InitFaulty == InitWith(OwnDocuments, MaxSaveFaults)

-----------------------------------------------------------------------------
(* run_agent, one action per phase *)

\* a _save may fail only while faults are left
SavesAllowed == {so \in SaveOutcomes : so = "ok" \/ faults_left > 0}

FaultsAfter(saved, so) ==
    IF saved /\ so # "ok" THEN faults_left - 1 ELSE faults_left

\* run_agent(g, m) is called
RunAgent(g, m) ==
    /\ pc = "idle"
    /\ clock < ApiStores
    /\ pc' = "Started"
    /\ goal' = g
    /\ max_iterations' = m
    /\ prior_context' = NoValue
    /\ plan' = <<>>
    /\ i' = 0
    /\ success_count' = 0
    /\ ret' = NoValue
    /\ log' = <<>>
    /\ data0' = data
    /\ last' = "run_agent"
    /\ UNCHANGED <<call, registry, data, disk, clock, faults_left>>

\* prior_context = memory.get_recent_context(goal)
Recall ==
    /\ pc = "Started"
    /\ LET r == GetRecentContext(data, goal, DefaultMaxEntries)
       IN  IF r.raised
           THEN /\ pc' = "Aborted"
                /\ ret' = RunAgentExcept(r.exc)
                /\ log' = log \o <<Event("recall_raised", 0), Event("except", 0)>>
                /\ UNCHANGED prior_context
           ELSE /\ pc' = "Planning"
                /\ prior_context' = r.value
                /\ log' = Append(log, Event("recall", 0))
                /\ UNCHANGED ret
    /\ UNCHANGED <<call, registry, data, disk, clock, faults_left, last,
                   goal, max_iterations, plan, i, success_count, data0>>

\* plan = plan_steps(goal, prior_context); if not plan: return False
Plan ==
    /\ pc = "Planning"
    /\ \E outcome \in LlmOutcomes :
         /\ plan' = PlanSteps(registry, goal, outcome)
         /\ IF PlanIsEmpty(plan')
            THEN /\ pc' = "Aborted"
                 /\ ret' = Returned(FALSE)
                 /\ UNCHANGED i
            ELSE /\ pc' = "Executing"
                 /\ i' = 1
                 /\ UNCHANGED ret
    /\ log' = Append(log, Event("plan", 0))
    /\ UNCHANGED <<call, registry, data, disk, clock, faults_left, last,
                   goal, max_iterations, prior_context, success_count, data0>>

\* one pass of the for loop: success = _execute_step(goal, step)
ExecuteStep ==
    /\ pc = "Executing"
    /\ i <= Len(plan)
    /\ ~CapReached(i, max_iterations)
    /\ LET skill_func == Resolve(registry, plan[i].action)
           outcomes == IF skill_func.raised THEN {skill_func}
                       ELSE Invoke(skill_func.value, plan[i].params)
       IN  \E co \in outcomes, so \in SavesAllowed :
             LET r == ExecuteStepOn(registry, data, disk, goal, plan[i], i, clock, co, so)
             IN  /\ data' = r.data
                 /\ disk' = r.disk
                 /\ clock' = IF Stored(r.calls) THEN clock + 1 ELSE clock
                 /\ faults_left' = FaultsAfter(Stored(r.calls), so)
                 /\ IF r.raised
                    THEN /\ pc' = "Aborted"
                         /\ ret' = RunAgentExcept(r.exc)
                         /\ log' = log \o r.calls \o <<Event("except", i)>>
                         /\ UNCHANGED <<i, success_count>>
                    ELSE /\ pc' = "Executing"
                         /\ success_count' = IF r.success THEN success_count + 1
                                             ELSE success_count
                         /\ i' = NextIndex(i, r.success)
                         /\ log' = log \o r.calls
                                   \o <<Event(IF r.success THEN "success" ELSE "failure", i)>>
                         /\ UNCHANGED ret
    /\ UNCHANGED <<call, registry, last, goal, max_iterations, prior_context, plan, data0>>

\* the loop ends (plan exhausted, or break at the cap): return success_rate > 0.5
Finish ==
    /\ pc = "Executing"
    /\ i > Len(plan) \/ CapReached(i, max_iterations)
    /\ pc' = "Completed"
    /\ ret' = Returned(ExceedsHalf(SuccessRate(success_count, plan)))
    /\ UNCHANGED <<call, registry, data, disk, clock, faults_left, last,
                   goal, max_iterations, prior_context, plan, i, success_count, log,
                   data0>>

\* the caller has the result; the locals are gone
Return ==
    /\ pc \in {"Completed", "Aborted"}
    /\ pc' = "idle"
    /\ goal' = "demo"
    /\ max_iterations' = DefaultMaxIterations
    /\ prior_context' = NoValue
    /\ plan' = <<>>
    /\ i' = 0
    /\ success_count' = 0
    /\ ret' = NoValue
    /\ log' = <<>>
    /\ data0' = EmptyDict
    /\ UNCHANGED <<call, registry, data, disk, clock, faults_left, last>>

-----------------------------------------------------------------------------
(* Calls of the Memory and registry API between runs *)

\* memory.store(g, step, result)
ApiStore(g, step, result) ==
    /\ pc = "idle"
    /\ clock < ApiStores
    /\ \E so \in SavesAllowed :
         LET r == Store(data, disk, g, step, result, clock, so)
         IN  /\ data' = r.data
             /\ disk' = r.disk
             /\ clock' = IF r.raised THEN clock ELSE clock + 1
             /\ faults_left' = FaultsAfter(~r.raised, so)
             /\ last' = IF r.raised THEN "store raised" ELSE "store"
    /\ UNCHANGED <<call, registry, runVars>>

\* memory.clear_goal(g): del and _save only when the goal has a bucket
ApiClearGoal(g) ==
    /\ pc = "idle"
    /\ \E so \in SavesAllowed :
         /\ data' = ClearGoalData(data, g)
         /\ disk' = IF Has(data, g) THEN Save(data', disk, so) ELSE disk
         /\ faults_left' = FaultsAfter(Has(data, g), so)
    /\ last' = "clear_goal"
    /\ UNCHANGED <<call, registry, clock, runVars>>

\* memory.retrieve(g)
ApiRetrieve(g) ==
    /\ pc = "idle"
    /\ clock < ApiStores
    /\ last' = "retrieve"
    /\ UNCHANGED <<call, registry, data, disk, clock, faults_left, runVars>>

\* memory.get_recent_context(g, n)
ApiGetRecentContext(g, n) ==
    /\ pc = "idle"
    /\ clock < ApiStores
    /\ last' = "get_recent_context"
    /\ UNCHANGED <<call, registry, data, disk, clock, faults_left, runVars>>

\* memory.get_stats()
ApiGetStats ==
    /\ pc = "idle"
    /\ clock < ApiStores
    /\ last' = "get_stats"
    /\ UNCHANGED <<call, registry, data, disk, clock, faults_left, runVars>>

\* registry.register(name, func)
ApiRegister(name, func) ==
    /\ pc = "idle"
    /\ clock < ApiStores
    /\ registry' = Register(registry, name, func)
    /\ last' = "register"
    /\ UNCHANGED <<call, data, disk, clock, faults_left, runVars>>

\* registry.reload_skills()
ApiReloadSkills ==
    /\ pc = "idle"
    /\ clock < ApiStores
    /\ \E importOk \in BOOLEAN : registry' = ReloadSkills(registry, importOk)
    /\ last' = "reload_skills"
    /\ UNCHANGED <<call, data, disk, clock, faults_left, runVars>>

Next ==
    \/ \E g \in Goals, m \in MaxIterationsChoices : RunAgent(g, m)
    \/ Recall
    \/ Plan
    \/ ExecuteStep
    \/ Finish
    \/ Return
    \/ \E g \in Goals, step \in ApiSteps, result \in ApiResults : ApiStore(g, step, result)
    \/ \E g \in Goals : ApiClearGoal(g)
    \/ \E g \in Goals : ApiRetrieve(g)
    \/ \E g \in Goals, n \in ContextSizes : ApiGetRecentContext(g, n)
    \/ ApiGetStats
    \/ \E c \in RegisterChoices : ApiRegister(c[1], c[2])
    \/ ApiReloadSkills

Spec == Init /\ [][Next]_vars

\* the same program started on a document it did not write
SpecForeign == InitForeign /\ [][Next]_vars

\* the same program on a file system where up to MaxSaveFaults writes fail
SpecFaulty == InitFaulty /\ [][Next]_vars

-----------------------------------------------------------------------------
(* A Memory used on its own, as demo_memory() does: memory = Memory(), then
   calls of its methods.  Every call leaves in call what it was called with
   and what it gave. *)

MemResults == ApiResults \cup {<<LongText>>}

MemContextSizes == ContextSizes \cup {2}

\* Memory.__init__: self.data = self._load()
Construct(dk) == Load(dk)

InitMemory ==
    /\ registry = EmptyMap
    /\ disk \in OwnDocuments
    /\ data = Construct(disk)
    /\ clock = 0
    /\ faults_left = MaxSaveFaults
    /\ last = "init"
    /\ call = [op |-> "Memory", data |-> data]
    /\ IdleRun

\* memory = Memory(): a new instance reads the document left by the previous one
MemOpen ==
    /\ data' = Construct(disk)
    /\ call' = [op |-> "Memory", data |-> data']
    /\ UNCHANGED <<registry, disk, clock, faults_left, last, runVars>>

\* memory.store(g, step, text)
MemStore(g, step, text) ==
    /\ clock < MemStores
    /\ \E so \in SavesAllowed :
         LET r == Store(data, disk, g, step, text, clock, so)
         IN  /\ data' = r.data
             /\ disk' = r.disk
             /\ clock' = clock + 1
             /\ faults_left' = FaultsAfter(~r.raised, so)
             /\ call' = [op |-> "store", goal |-> g, step |-> step, text |-> text,
                           raised |-> r.raised, saved |-> so]
    /\ UNCHANGED <<registry, last, runVars>>

\* memory.clear_goal(g)
MemClearGoal(g) ==
    /\ \E so \in SavesAllowed :
         /\ data' = ClearGoalData(data, g)
         /\ disk' = IF Has(data, g) THEN Save(data', disk, so) ELSE disk
         /\ faults_left' = FaultsAfter(Has(data, g), so)
         /\ call' = [op |-> "clear_goal", goal |-> g, removed |-> Has(data, g),
                       saved |-> IF Has(data, g) THEN so ELSE "none"]
    /\ UNCHANGED <<registry, clock, last, runVars>>

\* memory.retrieve(g)
MemRetrieve(g) ==
    /\ call' = [op |-> "retrieve", goal |-> g, value |-> Retrieve(data, g)]
    /\ data' = AfterRetrieve(data, g)
    /\ UNCHANGED <<registry, disk, clock, faults_left, last, runVars>>

\* memory.get_recent_context(g, n)
MemGetRecentContext(g, n) ==
    /\ call' = [op |-> "get_recent_context", goal |-> g, max_entries |-> n,
                  out |-> GetRecentContext(data, g, n)]
    /\ data' = AfterRetrieve(data, g)
    /\ UNCHANGED <<registry, disk, clock, faults_left, last, runVars>>

\* memory.get_stats()
MemGetStats ==
    /\ call' = [op |-> "get_stats", out |-> GetStats(data)]
    /\ UNCHANGED <<registry, data, disk, clock, faults_left, last, runVars>>

NextMemory ==
    \/ MemOpen
    \/ \E g \in Goals, step \in ApiSteps, text \in MemResults : MemStore(g, step, text)
    \/ \E g \in Goals : MemClearGoal(g)
    \/ \E g \in Goals : MemRetrieve(g)
    \/ \E g \in Goals, n \in MemContextSizes : MemGetRecentContext(g, n)
    \/ MemGetStats

SpecMemory == InitMemory /\ [][NextMemory]_vars

-----------------------------------------------------------------------------
(* Two Memory instances on the same document, as when demo_memory() makes its
   Memory() next to the module-level memory of the agent loop: data is the
   one's self.data, data0 the other's.  Both were constructed from the document
   before either stored.  No lock is taken by store or _save, so the calls of
   the two instances come in any order. *)

\* other.store(g, step, text) on the second instance
OtherStore(g, step, text) ==
    /\ clock < MemStores
    /\ \E so \in SavesAllowed :
         LET r == Store(data0, disk, g, step, text, clock, so)
         IN  /\ data0' = r.data
             /\ disk' = r.disk
             /\ clock' = clock + 1
             /\ faults_left' = FaultsAfter(~r.raised, so)
             /\ call' = [op |-> "other.store", goal |-> g, step |-> step, text |-> text,
                           raised |-> r.raised, saved |-> so]
    /\ UNCHANGED <<registry, data, last, pc, goal, max_iterations, prior_context, plan, i,
                   success_count, ret, log>>

NextShared ==
    \/ \E g \in Goals, step \in ApiSteps, text \in MemResults : MemStore(g, step, text)
    \/ \E g \in Goals, step \in ApiSteps, text \in MemResults : OtherStore(g, step, text)

SpecShared == InitMemory /\ [][NextShared]_vars

-----------------------------------------------------------------------------
(* The planner called on its own: plan_steps(goal, prior_context) under
   every registry content the registry's methods can produce.  call holds the
   goal, what the model capability did, the names registered at that time and
   the plan returned. *)

PlannerGoals == Goals \cup {"Patch it", "IMPROVE"}

InitPlanner ==
    /\ registry \in {LoadSkills(EmptyMap, ok) : ok \in BOOLEAN}
    /\ disk = Absent
    /\ data = Construct(disk)
    /\ clock = 0
    /\ faults_left = 0
    /\ last = "init"
    /\ call = [op |-> "none"]
    /\ IdleRun

\* plan = plan_steps(g, prior_context)
PlanStepsCall(g, outcome) ==
    /\ call' = [op |-> "plan_steps", goal |-> g, outcome |-> outcome,
                registered |-> ListSkills(registry),
                plan |-> PlanSteps(registry, g, outcome)]
    /\ UNCHANGED <<registry, data, disk, clock, faults_left, last, runVars>>

\* registry.register(name, func)
PlannerRegister(name, func) ==
    /\ registry' = Register(registry, name, func)
    /\ UNCHANGED <<call, data, disk, clock, faults_left, last, runVars>>

\* registry.reload_skills()
PlannerReloadSkills ==
    /\ \E importOk \in BOOLEAN : registry' = ReloadSkills(registry, importOk)
    /\ UNCHANGED <<call, data, disk, clock, faults_left, last, runVars>>

\* further answers of the model capability: a step whose action is the empty
\* string, and steps whose params is a text, a mapping, null or left out
PlannerOutcomes ==
    LlmOutcomes
    \cup { Returned(<< LB,
                       Item(CustomStep),
                       Item([action |-> "", params |-> [n |-> IntValue(1)]]),
                       Item([action |-> "generate_task_code"]),
                       RB >>),
           Returned(<< LB,
                       Item([action |-> "custom_skill", params |-> NonDict("text")]),
                       Item([action |-> "generate_task_code",
                             params |-> [task |-> StrValue(Text("fix it"))]]),
                       Item([action |-> "trace_variable_flow", params |-> NonDict("null")]),
                       Item([action |-> "custom_skill"]),
                       RB >>) }

\* register accepts any string as a name, the empty string too
NextPlanner ==
    \/ \E g \in PlannerGoals, outcome \in PlannerOutcomes : PlanStepsCall(g, outcome)
    \/ \E c \in RegisterChoices \cup {<<"", CustomSkill>>} : PlannerRegister(c[1], c[2])
    \/ PlannerReloadSkills

SpecPlanner == InitPlanner /\ [][NextPlanner]_vars

-----------------------------------------------------------------------------
(* The registry used on its own: registry = SkillRegistry(), then calls of
   register, resolve and reload_skills.  call holds the last call and what it
   gave; log holds the register calls made since the registry was last
   loaded. *)

\* register calls tried: a new name, the same name again with another
\* callable, and the name of a built-in skill
RegistryChoices ==
    { <<"custom_skill", CustomSkill>>,
      <<"custom_skill", TraceVariableFlow>>,
      <<"generate_task_code", CustomSkill>> }

Registered(name, func) == [ev |-> "register", name |-> name, func |-> func]

InitRegistry ==
    /\ registry \in {LoadSkills(EmptyMap, ok) : ok \in BOOLEAN}
    /\ disk = Absent
    /\ data = Construct(disk)
    /\ clock = 0
    /\ faults_left = 0
    /\ last = "init"
    /\ call = [op |-> "SkillRegistry"]
    /\ IdleRun

\* registry.register(name, func)
RegistryRegister(name, func) ==
    /\ Len(log) < MaxRegisters
    /\ registry' = Register(registry, name, func)
    /\ log' = Append(log, Registered(name, func))
    /\ call' = [op |-> "register", name |-> name, func |-> func]
    /\ UNCHANGED <<data, disk, clock, faults_left, last,
                   pc, goal, max_iterations, prior_context, plan, i, success_count,
                   ret, data0>>

\* registry.resolve(name)
RegistryResolve(name) ==
    /\ call' = [op |-> "resolve", name |-> name, out |-> Resolve(registry, name)]
    /\ UNCHANGED <<registry, data, disk, clock, faults_left, last, runVars>>

\* registry.reload_skills(); before is the mapping it was called on
RegistryReloadSkills ==
    /\ \E importOk \in BOOLEAN :
         /\ registry' = ReloadSkills(registry, importOk)
         /\ call' = [op |-> "reload_skills", imported |-> importOk, before |-> registry]
    /\ log' = <<>>
    /\ UNCHANGED <<data, disk, clock, faults_left, last,
                   pc, goal, max_iterations, prior_context, plan, i, success_count,
                   ret, data0>>

NextRegistry ==
    \/ \E c \in RegistryChoices : RegistryRegister(c[1], c[2])
    \/ \E name \in SkillNames \cup {"unknown_skill"} : RegistryResolve(name)
    \/ RegistryReloadSkills

SpecRegistry == InitRegistry /\ [][NextRegistry]_vars

-----------------------------------------------------------------------------
(* run_agent with a registry holding only the skill echo, a memory that
   starts empty and a planner made to return plans of echo steps (the model
   capability answers with the array of those steps). *)

EchoStep(t) == [action |-> "echo", params |-> [task |-> StrValue(Text(t))]]

\* plans of echo steps: each step passes the task "demo", or leaves task out
ForcedPlans ==
    UNION { [1..k -> {EchoStep("demo"), [action |-> "echo", params |-> EmptyMap]}] :
            k \in 0..MaxForcedPlan }

InitScenario ==
    /\ registry = Register(EmptyMap, "echo", EchoSkill)
    /\ disk \in {Absent, Doc(EmptyDict)}
    /\ data = Load(disk)
    /\ clock = 0
    /\ faults_left = 0
    /\ last = "init"
    /\ call = NoValue
    /\ IdleRun

\* plan = plan_steps(goal, prior_context), the model capability answering with
\* the forced plan
PlanForced ==
    /\ pc = "Planning"
    /\ \E p \in ForcedPlans :
         /\ plan' = PlanSteps(registry, goal,
                              Returned(<<LB>> \o [j \in 1..Len(p) |-> Item(p[j])] \o <<RB>>))
         /\ IF PlanIsEmpty(plan')
            THEN /\ pc' = "Aborted"
                 /\ ret' = Returned(FALSE)
                 /\ UNCHANGED i
            ELSE /\ pc' = "Executing"
                 /\ i' = 1
                 /\ UNCHANGED ret
    /\ log' = Append(log, Event("plan", 0))
    /\ UNCHANGED <<call, registry, data, disk, clock, faults_left, last,
                   goal, max_iterations, prior_context, success_count, data0>>

NextScenario ==
    \/ \E g \in Goals, m \in MaxIterationsChoices : RunAgent(g, m)
    \/ Recall
    \/ PlanForced
    \/ ExecuteStep
    \/ Finish
    \/ Return

SpecScenario == InitScenario /\ [][NextScenario]_vars

\* run_agent is one sequential flow: once called, each phase is taken when the
\* call before it has returned or raised
SpecScenarioLive ==
    /\ SpecScenario
    /\ WF_vars(Recall) /\ WF_vars(PlanForced) /\ WF_vars(ExecuteStep) /\ WF_vars(Finish)

-----------------------------------------------------------------------------
(* One run_agent after another on the same module-level memory, with
   memory.store and memory.clear_goal called in between.  What the run that
   returned last did is kept in call: its goal, how many steps it executed, the
   last of them, and the store as it was when it returned. *)

\* run_agent(g, m) is called
RunAgentAfter(g, m) ==
    /\ pc = "idle"
    /\ clock < FeedbackStores
    /\ pc' = "Started"
    /\ goal' = g
    /\ max_iterations' = m
    /\ prior_context' = NoValue
    /\ plan' = <<>>
    /\ i' = 0
    /\ success_count' = 0
    /\ ret' = NoValue
    /\ log' = <<>>
    /\ data0' = data
    /\ last' = "run_agent"
    /\ UNCHANGED <<call, registry, data, disk, clock, faults_left>>

\* run_agent returns: the caller has the result, the locals are gone
ReturnKept ==
    /\ pc \in {"Completed", "Aborted"}
    /\ call' = LET executed == Len(SelectSeq(log, LAMBDA e : e.ev = "resolve"))
               IN  [op |-> "run_agent", goal |-> goal, executed |-> executed,
                    step |-> IF executed = 0 THEN NoValue ELSE plan[executed],
                    data |-> data]
    /\ pc' = "idle"
    /\ goal' = "demo"
    /\ max_iterations' = DefaultMaxIterations
    /\ prior_context' = NoValue
    /\ plan' = <<>>
    /\ i' = 0
    /\ success_count' = 0
    /\ ret' = NoValue
    /\ log' = <<>>
    /\ data0' = EmptyDict
    /\ UNCHANGED <<registry, data, disk, clock, faults_left, last>>

\* the iteration limits tried are 1, which cuts a plan of two steps, and the default
NextFeedback ==
    \/ \E g \in Goals, m \in {1, DefaultMaxIterations} : RunAgentAfter(g, m)
    \/ Recall
    \/ PlanForced
    \/ ExecuteStep
    \/ Finish
    \/ ReturnKept
    \/ \E g \in Goals, step \in ApiSteps, result \in ApiResults : ApiStore(g, step, result)
    \/ \E g \in Goals : ApiClearGoal(g)

SpecFeedback == InitScenario /\ [][NextFeedback]_vars

-----------------------------------------------------------------------------
(* get_agent_status, called between calls that change the module-level
   memory and registry.  The memory is loaded from a document an earlier
   process saved, holding up to MaxSavedGoals goals. *)

SavedGoal(k) == "goal " \o ToString(k)

\* the store after the goals 1..n were stored to, one entry each
RECURSIVE SavedStore(_)
SavedStore(n) ==
    IF n = 0 THEN EmptyDict
    ELSE StoreAppend(SavedStore(n - 1), SavedGoal(n),
                     Entry([action |-> "demo_action", params |-> EmptyMap],
                           Text("Demo result"), 0))

\* variant: the first RecentGoals goals in place of the last
GetAgentStatus_FirstGoals(d, reg) ==
    LET stats == GetStats(d)
        goals == GetAllGoals(d)
    IN  IF stats.raised THEN stats
        ELSE Returned([memory_stats |-> stats.value,
                       available_skills |-> Cardinality(DOMAIN reg),
                       recent_goals |-> IF Len(goals) <= RecentGoals THEN goals
                                        ELSE SubSeq(goals, 1, RecentGoals)])

\* get_agent_status: the dict it returns, or the exception of get_stats
GetAgentStatus(d, reg) ==
    LET stats == GetStats(d)
    IN  IF stats.raised THEN stats
        ELSE Returned([memory_stats |-> stats.value,
                       available_skills |-> Cardinality(DOMAIN reg),
                       recent_goals |-> SliceFromEnd(GetAllGoals(d), RecentGoals)])

InitStatus ==
    /\ registry \in {LoadSkills(EmptyMap, ok) : ok \in BOOLEAN}
    /\ disk \in {Doc(SavedStore(n)) : n \in 0..MaxSavedGoals}
    /\ data = Load(disk)
    /\ clock = 0
    /\ faults_left = 0
    /\ last = "init"
    /\ call = [op |-> "none"]
    /\ IdleRun

\* get_agent_status()
AgentStatus ==
    /\ call' = [op |-> "get_agent_status", out |-> GetAgentStatus(data, registry)]
    /\ UNCHANGED <<registry, data, disk, clock, faults_left, last, runVars>>

NextStatus ==
    \/ AgentStatus
    \/ \E g \in Goals, step \in ApiSteps, text \in ApiResults : MemStore(g, step, text)
    \/ \E g \in Goals \cup {SavedGoal(MaxSavedGoals)} : MemClearGoal(g)
    \/ \E c \in RegisterChoices : RegistryRegister(c[1], c[2])
    \/ RegistryReloadSkills

SpecStatus == InitStatus /\ [][NextStatus]_vars

-----------------------------------------------------------------------------
(* What a run has done, read from its log *)

Min(a, b) == IF a <= b THEN a ELSE b

\* the step numbers of the events named ev, in the order they happened
Steps(ev) ==
    LET s == SelectSeq(log, LAMBDA e : e.ev = ev)
    IN  [k \in 1..Len(s) |-> s[k].step]

Logged(ev, k) == \E j \in DOMAIN log : log[j].ev = ev /\ log[j].step = k

Successes == Len(Steps("success"))

\* the capability of step k was called and raised
CapabilityRaised(k) ==
    \E j \in DOMAIN log : log[j].ev = "invoke" /\ log[j].step = k /\ log[j].out.raised

\* step k went to the registry and no capability was called for it
Unresolved(k) == Logged("resolve", k) /\ ~Logged("invoke", k)

\* step k + 1 has been taken, or is the step the loop takes next
NextStepTaken(k) == Logged("resolve", k + 1) \/ (pc = "Executing" /\ i = k + 1)

Terminal == pc \in {"Completed", "Aborted"}

\* the entries of goal g
Bucket(d, g) == Retrieve(d, g).entries

IsPrefix(s, t) == Len(s) <= Len(t) /\ SubSeq(t, 1, Len(s)) = s

-----------------------------------------------------------------------------
(* Agent loop *)

\* C1: a run that reaches the end of plan execution returns true exactly when
\* twice the number of successful steps exceeds the number of steps in the
\* plan; exactly half succeeding returns false.
C1_StrictMajority ==
    pc = "Completed" => ret = Returned(2 * Successes > Len(plan))

\* a plan of four steps, two of them successful, returned false
C1_Witness ==
    /\ pc = "Completed"
    /\ Len(plan) = 4
    /\ Successes = 2
    /\ ret = Returned(FALSE)

\* C2 as stated: whenever a failure was raised inside the loop (a step failed,
\* or the top-level handler fired), the run returns false.
C2_AsStated ==
    (Terminal /\ \E j \in DOMAIN log : log[j].ev \in {"failure", "except"})
        => ret = Returned(FALSE)

\* C2, amended: run_agent never raises; what it returns is a boolean, and it is
\* false whenever an error reached the top-level handler (a failed recall, or a
\* failed Memory store while recording a step's error).  A failure absorbed
\* inside a step only counts that step as failed.
C2_NeverRaises ==
    /\ Terminal => ret \in {Returned(TRUE), Returned(FALSE)}
    /\ ~Terminal => ret = NoValue
    /\ (\E j \in DOMAIN log : log[j].ev = "except")
           => pc = "Aborted" /\ ret = Returned(FALSE)

\* a capability raised, the store of its error raised as well, and the run
\* returned false
C2_Witness ==
    /\ pc = "Aborted"
    /\ \E k \in 1..Len(plan) : CapabilityRaised(k) /\ Logged("store_raised", k)
    /\ ret = Returned(FALSE)

\* C3: when the planner returns an empty plan the run is Aborted and returns
\* false, and nothing was resolved, called or stored during it.
C3_EmptyPlanAborts ==
    (Logged("plan", 0) /\ plan = <<>>) =>
        /\ pc = "Aborted"
        /\ ret = Returned(FALSE)
        /\ \A j \in DOMAIN log : log[j].ev \in {"recall", "plan"}
        /\ data = data0

\* an empty plan came back while the store held entries
C3_Witness ==
    /\ Logged("plan", 0)
    /\ plan = <<>>
    /\ pc = "Aborted"
    /\ data # EmptyDict

\* C4: the steps taken are the first min(n, max_iterations) steps of the plan,
\* in plan order, and no event of a run (resolve, call, store) belongs to a
\* step beyond max_iterations.
C4_IterationCap ==
    /\ \A j \in DOMAIN log : log[j].step <= Min(Len(plan), max_iterations)
    /\ \E n \in 0..Len(plan) : Steps("resolve") = [k \in 1..n |-> k]
    /\ pc = "Completed" =>
           Steps("resolve") = [k \in 1..Min(Len(plan), max_iterations) |-> k]

\* a plan of four steps under a cap of two: steps 1 and 2 were taken
C4_Witness ==
    /\ pc = "Completed"
    /\ Len(plan) = 4
    /\ max_iterations = 2
    /\ Steps("resolve") = <<1, 2>>
    /\ Steps("store") = <<1, 2>>

\* C5: a step that fails (its action is unresolved, or its capability raises)
\* before the last step to be taken is followed by the next step.
C5_FailureContinues ==
    \A k \in 1..Len(plan) :
        ((Unresolved(k) \/ CapabilityRaised(k)) /\ k < Min(Len(plan), max_iterations))
            => NextStepTaken(k)

\* a capability raised at step 1 and step 2 was taken after it
C5_Witness ==
    /\ CapabilityRaised(1)
    /\ Logged("failure", 1)
    /\ Logged("resolve", 2)

\* C6: during a run, for every step whose capability was called, one entry was
\* appended to the goal's bucket, holding the step and the stringified return value when
\* the capability returned (the step counted successful), or the error string
\* when it raised (the step counted failed).
C6_StepRecorded ==
    pc # "idle" =>
        /\ Len(Bucket(data, goal)) = Len(Bucket(data0, goal)) + Len(Steps("resolve"))
        /\ IsPrefix(Bucket(data0, goal), Bucket(data, goal))
        /\ \A j \in DOMAIN log :
             log[j].ev = "invoke" =>
               LET k == log[j].step
                   out == log[j].out
                   entry == Bucket(data, goal)[Len(Bucket(data0, goal)) + k]
               IN  /\ entry.step = plan[k]
                   /\ entry.result = IF out.raised
                                     THEN Text("Error: ") \o out.exc.msg
                                     ELSE Str(out.value)
                   /\ Logged("success", k) = ~out.raised
                   /\ Logged("failure", k) = out.raised

\* one step returned 7 and one raised: the bucket ends with "7" and the error
C6_Witness ==
    /\ pc = "Completed"
    /\ Len(plan) = 2
    /\ Steps("success") = <<1>>
    /\ Steps("failure") = <<2>>
    /\ LET b == Bucket(data, goal)
       IN  /\ Len(b) = 3
           /\ b[2].result = <<"7">>
           /\ b[3].result = <<"Error: ", "skill failed">>

\* C7: for a step whose action is not in the registry no capability is called,
\* the step is counted failed and never successful, and the loop goes on to
\* the next step.
C7_UnresolvedFails ==
    \A k \in 1..Len(plan) :
        (Logged("resolve", k) /\ plan[k].action \notin DOMAIN registry) =>
            /\ ~Logged("invoke", k)
            /\ Logged("failure", k)
            /\ ~Logged("success", k)
            /\ Successes <= Len(Steps("resolve")) - 1
            /\ k < Min(Len(plan), max_iterations) => NextStepTaken(k)

\* the first step's action was not registered and the second step was taken
C7_Witness ==
    /\ Logged("resolve", 1)
    /\ plan[1].action \notin DOMAIN registry
    /\ Logged("failure", 1)
    /\ Logged("resolve", 2)

-----------------------------------------------------------------------------
(* Memory store *)

\* C8: a store(goal, step, result) that returns leaves retrieve(goal) equal to
\* what it was with one entry of exactly that step and result at its end, and
\* until clear_goal(goal) every entry stays where it was in retrieve(goal), so
\* entries appear in the order they were stored.
C8_StoreThenRetrieve ==
    [][/\ \A g \in Goals, step \in ApiSteps, result \in ApiResults :
            (ApiStore(g, step, result) /\ last' = "store") =>
                /\ Len(Bucket(data', g)) = Len(Bucket(data, g)) + 1
                /\ IsPrefix(Bucket(data, g), Bucket(data', g))
                /\ LET entry == Bucket(data', g)[Len(Bucket(data', g))]
                   IN  entry.step = step /\ entry.result = result
       /\ \A g \in Goals :
            ~ApiClearGoal(g) => IsPrefix(Bucket(data, g), Bucket(data', g))
      ]_vars

\* a store has just added its entry behind an earlier one
C8_Witness ==
    /\ last = "store"
    /\ \E g \in Goals :
         LET b == Bucket(data, g)
         IN  /\ Len(b) = 2
             /\ b[2].step \in ApiSteps
             /\ b[2].result \in ApiResults
             /\ b[1].timestamp < b[2].timestamp

\* C9: whatever operation runs, each goal's entries either stay as they are,
\* get one entry appended at the end, or go away with the whole bucket.
C9_AppendOnly ==
    [][\A g \in Goals :
         \/ Retrieve(data', g) = Retrieve(data, g)
         \/ /\ Len(Bucket(data', g)) = Len(Bucket(data, g)) + 1
            /\ IsPrefix(Bucket(data, g), Bucket(data', g))
         \/ Has(data, g) /\ ~Has(data', g)
      ]_vars

\* a bucket was removed after a run had appended to another one
C9_Witness ==
    /\ last = "clear_goal"
    /\ ~Has(data, "demo")
    /\ Len(Bucket(data, "Improve io")) >= 2
    /\ Len(Bucket(data, "Improve io")) < clock

\* C10: after clear_goal(goal), retrieve(goal) is empty; clearing again changes
\* nothing; clearing a goal that has no bucket changes neither the store nor
\* the document; every other goal's bucket is as it was.
C10_ClearGoal ==
    [][\A g \in Goals :
         ApiClearGoal(g) =>
            /\ Retrieve(data', g) = List(<<>>)
            /\ ~Has(data', g)
            /\ ClearGoalData(data', g) = data'
            /\ ~Has(data, g) => (data' = data /\ disk' = disk)
            /\ \A h \in Goals \ {g} :
                 /\ Has(data', h) = Has(data, h)
                 /\ Retrieve(data', h) = Retrieve(data, h)
      ]_vars

\* a goal was cleared while the other goal kept its entry
C10_Witness ==
    /\ last = "clear_goal"
    /\ ~Has(data, "demo")
    /\ Len(Bucket(data, "Improve io")) = 1
    /\ clock = 2
    /\ disk = Doc(data)

\* C11: retrieve gives the empty sequence for a goal that has no bucket, and
\* get_recent_context(goal, n) gives the "no prior context" sentinel exactly
\* when retrieve(goal) is empty, whatever n is.
C11_SentinelIffEmpty ==
    /\ (call.op = "retrieve" /\ ~Has(data, call.goal)) => call.value = List(<<>>)
    /\ call.op = "get_recent_context" =>
          /\ ~call.out.raised
          /\ (call.out.value = <<"No prior context available.">>)
                 <=> (Retrieve(data, call.goal) = List(<<>>))

\* the sentinel came back for a goal without a bucket while another goal had
\* entries, asked with max_entries = 0
C11_Witness ==
    /\ call.op = "get_recent_context"
    /\ call.max_entries = 0
    /\ ~Has(data, call.goal)
    /\ data # EmptyDict
    /\ call.out.value = <<"No prior context available.">>

\* the lines get_recent_context is said to format: the last min(n, len) entries
LastEntries(entries, n) ==
    SubSeq(entries, Len(entries) - Min(n, Len(entries)) + 1, Len(entries))

Lines(entries) == [k \in 1..Len(entries) |-> ContextLine(entries[k])]

\* C12 as stated: for every max_entries >= 0 and a goal with entries,
\* get_recent_context formats exactly the last min(max_entries, n) entries, one
\* line each in chronological order, never more than max_entries of them.
C12_AsStated ==
    (call.op = "get_recent_context" /\ Bucket(data, call.goal) # <<>>) =>
        call.out = Returned(JoinLines(Lines(LastEntries(Bucket(data, call.goal),
                                                        call.max_entries))))

C14_FailedSaveKeepsEntry ==
    (call.op = "store" /\ call.saved # "ok") =>
        /\ ~call.raised
        /\ Bucket(data, call.goal) # <<>>
        /\ LET b == Retrieve(data, call.goal).entries
           IN  /\ b[Len(b)].step = call.step
               /\ b[Len(b)].result = call.text
               /\ b[Len(b)].timestamp = clock - 1

\* the write of a second entry failed: the entry is in memory, the document
\* is not the store
C14_Witness ==
    /\ call.op = "store"
    /\ call.saved = "write_failed"
    /\ Len(Bucket(data, call.goal)) = 2
    /\ disk = Corrupt

\* C15: a Memory constructed on an absent or unreadable document is empty
\* (retrieve is empty for every goal, stats are 0 and 0); constructed on a
\* document that deserializes it retrieves the persisted entries.
C15_ConstructFromDocument ==
    call.op = "Memory" =>
        /\ disk.file \in {"absent", "corrupt"} =>
              /\ \A g \in Goals : Retrieve(data, g) = List(<<>>)
              /\ GetStats(data) = Returned([total_goals |-> 0, total_entries |-> 0])
        /\ disk.file = "json" =>
              \A g \in Goals :
                 Retrieve(data, g) = IF g \in DOMAIN disk.doc.val
                                     THEN disk.doc.val[g]
                                     ELSE List(<<>>)

\* constructed on a document that a failed write had cut short after two
\* stores: the new instance is empty
C15_Witness ==
    /\ call.op = "Memory"
    /\ disk = Corrupt
    /\ clock = 2
    /\ data = EmptyDict

\* the number of entries, counted one by one
EntryCount(d) ==
    Cardinality({gk \in (DOMAIN d.val) \X (1..MemStores) : gk[2] <= Len(d.val[gk[1]].entries)})

\* C16: get_stats returns the number of buckets and the sum of their lengths;
\* every store raises total_entries by exactly 1 and clear_goal(g) lowers it by
\* exactly the length of g's bucket.
C16_Stats ==
    [][/\ call'.op = "get_stats" =>
             call'.out = Returned([total_goals |-> Cardinality(DOMAIN data.val),
                                   total_entries |-> EntryCount(data)])
       /\ call'.op = "store" =>
             GetStats(data').value.total_entries = GetStats(data).value.total_entries + 1
       /\ call'.op = "clear_goal" =>
             /\ GetStats(data').value.total_entries =
                    GetStats(data).value.total_entries - Len(Bucket(data, call'.goal))
             /\ GetStats(data').value.total_goals =
                    GetStats(data).value.total_goals - (IF Has(data, call'.goal) THEN 1 ELSE 0)
      ]_vars

\* stats of a store with two goals and three entries
C16_Witness ==
    /\ call.op = "get_stats"
    /\ call.out = Returned([total_goals |-> 2, total_entries |-> 3])
    /\ Len(GetAllGoals(data)) = 2

-----------------------------------------------------------------------------
(* Planner *)

\* what the model capability did when no plan can be read from it: the call
\* failed, the response has no bracket pair, or what stands between the first
\* "[" and the last "]" is not valid JSON
FailedOutcomes ==
    { Raised(Exc("RuntimeError", Text("model failed"))),
      Returned(<<Prose>>),
      Returned(<<RB, LB>>),
      Returned(<<LB, Item(CustomStep)>>) }

IsStep(v) == DOMAIN v = {"action", "params"}

\* C17: plan_steps never raises: whenever the model call fails or its response
\* has no bracket pair or is not valid structured data, what it returns is the
\* fallback plan for the goal, and what it returns is always a sequence of steps.
C17_FallsBack ==
    call.op = "plan_steps" =>
        /\ \A k \in 1..Len(call.plan) : IsStep(call.plan[k])
        /\ call.outcome \in FailedOutcomes => call.plan = GetFallbackPlan(call.goal)

\* the model call failed and the two-step fallback plan came back
C17_Witness ==
    /\ call.op = "plan_steps"
    /\ call.outcome = Raised(Exc("RuntimeError", Text("model failed")))
    /\ call.goal = "Improve io"
    /\ Len(call.plan) = 2

\* C18 as stated: every step of every plan plan_steps returns, fallback plans
\* included, names a capability that is in the registry when the plan is made.
C18_AsStated ==
    call.op = "plan_steps" =>
        \A k \in 1..Len(call.plan) : call.plan[k].action \in call.registered

\* C19 as stated: for every model outcome plan_steps returns a non-empty plan.
C19_AsStated ==
    call.op = "plan_steps" => call.plan # <<>>

\* C19, amended: plan_steps returns a non-empty plan whenever the model call
\* fails or its output is malformed; for an empty array, and for an array whose
\* entries are all dropped by validation, it returns the empty plan.
C19_EmptyOnlyWhenParsed ==
    call.op = "plan_steps" =>
        /\ call.outcome \in FailedOutcomes => call.plan # <<>>
        /\ call.outcome = Returned(<<LB, RB>>) => call.plan = <<>>
        /\ call.outcome = Returned(<<LB, LB, Item(CustomStep), RB, RB>>) => call.plan = <<>>
        /\ (call.outcome \in {Returned(ArrayOf(k)) : k \in 1..MaxPlan}
               /\ "custom_skill" \notin call.registered) => call.plan = <<>>
        /\ call.plan = <<>> => call.outcome \notin FailedOutcomes

\* an array of two steps naming a skill that is not registered gave the empty
\* plan
C19_Witness ==
    /\ call.op = "plan_steps"
    /\ call.outcome = Returned(<<LB, Item(CustomStep), Item(CustomStep), RB>>)
    /\ "custom_skill" \notin call.registered
    /\ call.plan = <<>>

\* the goals whose text holds "improve", and "patch", in any case
ImproveGoals == {"Improve io", "IMPROVE"}
PatchGoals == {"Patch it"}

\* the fallback step every fallback plan starts with
DefaultStep(g) == [action |-> "generate_task_code", params |-> [task |-> [str |-> <<g>>]]]

\* C20 as stated: a fallback plan has exactly two steps if the goal contains
\* "improve" in any case and exactly one step for any other goal, and its
\* first step calls the default capability with the goal as task.
C20_AsStated ==
    (call.op = "plan_steps" /\ call.outcome \in FailedOutcomes) =>
        /\ Len(call.plan) = IF call.goal \in ImproveGoals THEN 2 ELSE 1
        /\ call.plan[1] = DefaultStep(call.goal)

\* C20, amended: a fallback plan depends on the goal alone; it has exactly two
\* steps if the goal contains "patch" or "improve" in any case and exactly one
\* step otherwise, and its first step calls generate_task_code with the goal
\* as task.
C20_FallbackPlan ==
    (call.op = "plan_steps" /\ call.outcome \in FailedOutcomes) =>
        /\ Len(call.plan) = IF call.goal \in ImproveGoals \cup PatchGoals THEN 2 ELSE 1
        /\ call.plan[1] = DefaultStep(call.goal)
        /\ \A reg \in {EmptyMap, registry}, outcome \in FailedOutcomes :
              PlanSteps(reg, call.goal, outcome) = call.plan

\* the fallback plan for a goal that holds "patch" and not "improve" has two
\* steps
C20_Witness ==
    /\ call.op = "plan_steps"
    /\ call.outcome \in FailedOutcomes
    /\ call.goal = "Patch it"
    /\ Len(call.plan) = 2

-----------------------------------------------------------------------------
(* Registry *)

\* the built-in capability set
BuiltIns == LoadSkills(EmptyMap, TRUE)

\* C21: register never fails and the last write wins: a register call binds
\* its name to its capability and leaves the entry of every other name as it
\* was, and after any sequence of register calls since the last reload,
\* resolve(name) gives the capability of the most recent register of that name.
C21_LastWriteWins ==
    [][ /\ (call'.op = "register" /\ log' = Append(log, Registered(call'.name, call'.func)))
            => /\ call'.name \in DOMAIN registry'
               /\ registry'[call'.name] = call'.func
               /\ \A x \in (DOMAIN registry \cup DOMAIN registry') \ {call'.name} :
                    /\ x \in DOMAIN registry
                    /\ x \in DOMAIN registry'
                    /\ registry'[x] = registry[x]
        /\ \A k \in DOMAIN log' :
             (\A j \in (k + 1)..Len(log') : log'[j].name # log'[k].name)
                => Resolve(registry', log'[k].name) = Returned(log'[k].func) ]_vars

\* custom_skill was registered twice with different callables, and resolve
\* gave the second
C21_Witness ==
    /\ Len(log) >= 2
    /\ log[1] = Registered("custom_skill", CustomSkill)
    /\ log[2] = Registered("custom_skill", TraceVariableFlow)
    /\ call = [op |-> "resolve", name |-> "custom_skill", out |-> Returned(TraceVariableFlow)]
    /\ "generate_task_code" \in DOMAIN registry
    /\ registry["generate_task_code"] = GenerateTaskCode

\* C22: resolve(name) raises the not-found error (ValueError) exactly when name
\* is not registered, returns the registered capability otherwise, and in both
\* cases leaves the registry as it was.
C22_ResolveNotFound ==
    [][ call'.op = "resolve"
          => /\ registry' = registry
             /\ call'.out.raised <=> call'.name \notin DOMAIN registry
             /\ call'.out.raised => call'.out.exc.type = "ValueError"
             /\ ~call'.out.raised => call'.out.value = registry[call'.name] ]_vars

\* a resolve of a name that is not registered raised, in a registry that held
\* the built-in names and a name registered at run time
C22_Witness ==
    /\ call.op = "resolve"
    /\ call.name = "unknown_skill"
    /\ call.out.raised
    /\ DOMAIN registry = {"generate_task_code", "trace_variable_flow", "custom_skill"}

\* C23 as stated: after reload() the registry is exactly the built-in
\* capability set.
C23_AsStated ==
    call.op = "reload_skills" => registry = BuiltIns

\* C23: after reload() no name registered at run time is left and every name
\* in the registry is bound to its built-in capability; the registry is exactly
\* the built-in capability set when the built-in skills could be imported, and
\* is empty when their import failed.
C23_ReloadResets ==
    call.op = "reload_skills"
      => /\ DOMAIN registry \subseteq DOMAIN BuiltIns
         /\ \A x \in DOMAIN registry : registry[x] = BuiltIns[x]
         /\ call.imported => registry = BuiltIns
         /\ ~call.imported => registry = EmptyMap

\* a reload that imported the built-in skills, called on a registry holding a
\* run-time name and an overwritten built-in name
C23_Witness ==
    /\ call.op = "reload_skills"
    /\ call.imported
    /\ "custom_skill" \in DOMAIN call.before
    /\ "generate_task_code" \in DOMAIN call.before
    /\ call.before["generate_task_code"] = CustomSkill
    /\ registry = BuiltIns

-----------------------------------------------------------------------------
(* Agent loop: scenario and termination *)

\* C24: with a registry holding only echo, a memory that was empty when the
\* run began and a planner returning the single step {action: echo, params:
\* {task: demo}}, run_agent("demo") returns true and the bucket of "demo" holds
\* exactly one entry, whose result is "demo".
C24_EchoScenario ==
    ( /\ Terminal
      /\ goal = "demo"
      /\ max_iterations = DefaultMaxIterations
      /\ data0 = EmptyDict
      /\ plan = <<EchoStep("demo")>> )
      => /\ pc = "Completed"
         /\ ret = Returned(TRUE)
         /\ Len(Bucket(data, "demo")) = 1
         /\ Bucket(data, "demo")[1].result = Text("demo")
         /\ Bucket(data, "demo")[1].step = EchoStep("demo")

\* the scenario's run has completed and returned true
C24_Witness ==
    /\ pc = "Completed"
    /\ goal = "demo"
    /\ max_iterations = DefaultMaxIterations
    /\ data0 = EmptyDict
    /\ plan = <<EchoStep("demo")>>
    /\ ret = Returned(TRUE)
    /\ DOMAIN registry = {"echo"}
    /\ GetAllGoals(data) = <<"demo">>

\* C30: a run that has started reaches Completed or Aborted and returns a
\* boolean, provided the model call and every capability return or raise; it
\* calls the planner once, takes each step at most once (no retry, no
\* re-planning) and invokes at most min(len(plan), max_iterations) capabilities.
C30_Terminates ==
    /\ [](/\ Len(Steps("invoke")) <= Min(Len(plan), max_iterations)
          /\ Len(Steps("plan")) <= 1
          /\ \A k \in 1..Len(plan) :
               Len(SelectSeq(Steps("resolve"), LAMBDA n : n = k)) <= 1
          /\ Terminal => ret \in {Returned(TRUE), Returned(FALSE)})
    /\ (pc = "Started") ~> Terminal

\* a run cut by the cap: a plan of two steps under max_iterations = 1 ended
\* after one invocation
C30_Witness ==
    /\ pc = "Completed"
    /\ Len(plan) = 2
    /\ max_iterations = 1
    /\ Len(Steps("invoke")) = 1
    /\ ret = Returned(FALSE)

-----------------------------------------------------------------------------
(* Failure reasoning *)

\* the goal's bucket holds an entry stored during this run whose result is an
\* error text ("Error: " followed by the exception's message)
FailureStored ==
    /\ IsList(Retrieve(data, goal))
    /\ \E k \in DOMAIN Bucket(data, goal) :
         /\ IsList(Retrieve(data0, goal)) => k > Len(Bucket(data0, goal))
         /\ IsPrefix(Text("Error: "), Bucket(data, goal)[k].result)

-----------------------------------------------------------------------------
(* Status *)

\* C26: get_agent_status changes neither the memory store (in memory or
\* persisted) nor the registry, and returns the current memory stats, the
\* number of registered skills and the last RecentGoals goals of the store's
\* goal list: at most RecentGoals goals, each of which has a bucket.
C26_StatusSnapshot ==
    [][ call'.op = "get_agent_status"
          => /\ data' = data
             /\ disk' = disk
             /\ registry' = registry
             /\ ~call'.out.raised
             /\ call'.out.value.memory_stats
                  = [total_goals |-> Cardinality(DOMAIN data.val),
                     total_entries |-> EntryCount(data)]
             /\ call'.out.value.available_skills = Cardinality(DOMAIN registry)
             /\ LET recent == call'.out.value.recent_goals
                    all == GetAllGoals(data)
                IN  /\ Len(recent) = Min(RecentGoals, Len(all))
                    /\ \A j \in DOMAIN recent :
                         /\ Has(data, recent[j])
                         /\ recent[j] = all[Len(all) - Len(recent) + j] ]_vars

\* a status taken of a store holding more than RecentGoals goals, the newest
\* one stored to after the document was loaded, with a run-time skill registered
C26_Witness ==
    /\ call.op = "get_agent_status"
    /\ ~call.out.raised
    /\ Len(GetAllGoals(data)) > RecentGoals + 1
    /\ Len(call.out.value.recent_goals) = RecentGoals
    /\ call.out.value.recent_goals[RecentGoals] = "demo"
    /\ call.out.value.recent_goals[1] # GetAllGoals(data)[1]
    /\ call.out.value.available_skills = 3
    /\ call.out.value.memory_stats.total_entries > Len(GetAllGoals(data))

-----------------------------------------------------------------------------
(* Phases of a run *)

\* the moves between positions of run_agent
PhaseMoves ==
    { <<"idle", "idle">>, <<"idle", "Started">>,
      <<"Started", "Planning">>, <<"Started", "Aborted">>,
      <<"Planning", "Executing">>, <<"Planning", "Aborted">>,
      <<"Executing", "Executing">>, <<"Executing", "Completed">>,
      <<"Executing", "Aborted">>,
      <<"Completed", "idle">>, <<"Aborted", "idle">> }

\* what the run has done so far is: the recall, then one call of the planner,
\* then the steps 1, 2, ... of the plan, each taken once
LogInOrder ==
    /\ pc \in {"idle", "Started"} => log = <<>>
    /\ pc \notin {"idle", "Started"} => log # <<>> /\ log[1] = Event("recall", 0)
    /\ pc = "Planning" => Len(log) = 1
    /\ pc \in {"Executing", "Completed"} => Len(log) >= 2 /\ log[2] = Event("plan", 0)
    /\ Len(Steps("recall")) <= 1
    /\ Len(Steps("plan")) <= 1
    /\ Terminal => Len(Steps("plan")) = 1
    /\ Steps("resolve") = [k \in 1..Len(Steps("resolve")) |-> k]
    /\ Len(Steps("resolve")) <= Len(plan)
    /\ \A j \in DOMAIN log :
         log[j].ev \in {"invoke", "store", "success", "failure"}
           => \E r \in 1..(j - 1) : log[r] = Event("resolve", log[j].step)
                                    /\ \A q \in (r + 1)..j : log[q].step = log[j].step
    /\ pc = "Executing" => i = Len(Steps("resolve")) + 1

\* C27: within one run the phases follow Started -> Planning -> Executing ->
\* Completed | Aborted: the recall comes before the planner, the planner is
\* called exactly once and before any step, the steps are taken in plan order
\* and at most once each, and the run ends in one terminal state after which
\* nothing is executed or stored.
C27_PhaseOrder ==
    [][ /\ <<pc, pc'>> \in PhaseMoves
        /\ LogInOrder'
        /\ pc \in {"Started", "Planning"} => data' = data /\ disk' = disk
        /\ Terminal => /\ pc' = "idle"
                       /\ data' = data
                       /\ disk' = disk
                       /\ registry' = registry ]_vars

\* a run of a three-step plan has completed, its second step having failed
C27_Witness ==
    /\ pc = "Completed"
    /\ Len(plan) = 3
    /\ Steps("resolve") = <<1, 2, 3>>
    /\ Steps("failure") = <<2>>
    /\ Steps("success") = <<1, 3>>

-----------------------------------------------------------------------------
(* Plan validation *)

\* the candidate array the last plan_steps call parsed from the model's answer
RawSteps == ParsePlanResponse(CallModel(call.outcome))

\* C28 as stated: the validated plan is the subsequence, in order, of the
\* candidates that are objects, have an action field and whose action is a
\* registered skill name.
C28_AsStated ==
    (call.op = "plan_steps" /\ ~RawSteps.raised)
      => LET kept == SelectSeq(RawSteps.value,
                               LAMBDA e : /\ IsDict(e)
                                          /\ "action" \in DOMAIN e
                                          /\ e.action \in call.registered)
         IN  /\ Len(call.plan) = Len(kept)
             /\ \A k \in DOMAIN kept : call.plan[k].action = kept[k].action

\* C28: the validated plan is the subsequence, in order, of the candidates
\* that are objects, have an action that is not empty and whose action is a
\* registered skill name; every other candidate is dropped and the plan does
\* not fail.  Apart from params, a kept step is the candidate as it was.
C28_ValidatedSubsequence ==
    (call.op = "plan_steps" /\ ~RawSteps.raised)
      => LET kept == SelectSeq(RawSteps.value,
                               LAMBDA e : /\ IsDict(e)
                                          /\ "action" \in DOMAIN e
                                          /\ e.action # ""
                                          /\ e.action \in call.registered)
         IN  /\ Len(call.plan) = Len(kept)
             /\ \A k \in DOMAIN kept :
                  /\ DOMAIN call.plan[k] = DOMAIN kept[k] \cup {"params"}
                  /\ \A x \in DOMAIN kept[k] \ {"params"} : call.plan[k][x] = kept[k][x]

\* one valid step and three dropped candidates (not an object, an unregistered
\* action, no action) gave exactly the valid step
C28_Witness ==
    /\ call.op = "plan_steps"
    /\ ~RawSteps.raised
    /\ Len(RawSteps.value) = 4
    /\ call.registered = SkillNames
    /\ call.plan = <<[action |-> "custom_skill", params |-> EmptyMap]>>

\* C29: every step of a validated plan has a params field that is a mapping:
\* the candidate's own params when that is a mapping, the empty mapping when
\* the candidate has no params or one that is not a mapping.
C29_ParamsIsMapping ==
    (call.op = "plan_steps" /\ ~RawSteps.raised)
      => LET kept == SelectSeq(RawSteps.value,
                               LAMBDA e : /\ IsDict(e)
                                          /\ ActionOf(e) # ""
                                          /\ ActionOf(e) \in call.registered)
         IN  /\ Len(call.plan) = Len(kept)
             /\ \A k \in DOMAIN kept :
                  /\ "params" \in DOMAIN call.plan[k]
                  /\ IsDict(call.plan[k].params)
                  /\ call.plan[k].params
                       = IF "params" \in DOMAIN kept[k] /\ IsDict(kept[k].params)
                         THEN kept[k].params
                         ELSE EmptyMap

\* a validated plan of four steps: params that was a text, a mapping, null and
\* left out
C29_Witness ==
    /\ call.op = "plan_steps"
    /\ ~RawSteps.raised
    /\ Len(call.plan) = 4
    /\ call.plan[1] = [action |-> "custom_skill", params |-> EmptyMap]
    /\ call.plan[2].params = [task |-> StrValue(Text("fix it"))]
    /\ call.plan[3].params = EmptyMap
    /\ call.plan[4].params = EmptyMap

-----------------------------------------------------------------------------
(* Steps and memory *)

C33_CapCountsAgainstRate ==
    /\ pc \in {"Completed", "Aborted"} /\ 2 * max_iterations <= Len(plan)
         => ret = Returned(FALSE)
    /\ pc = "Completed"
         => /\ success_count <= Min(Len(plan), max_iterations)
            /\ ret = Returned(2 * success_count > Len(plan))

\* both executed steps of a four-step plan succeeded and the run returned False
C33_Witness ==
    /\ pc = "Completed"
    /\ Len(plan) = 4
    /\ max_iterations = 2
    /\ Steps("success") = <<1, 2>>
    /\ success_count = 2
    /\ ret = Returned(FALSE)

\* C34: run_agent(goal) modifies only the bucket of goal: at every step of a
\* run the store without goal's bucket is what it was, textually distinct goals
\* being distinct buckets, and the registry mapping is what it was.
C34_RunFrame ==
    [][pc \notin {"idle"}
         => /\ Del(data', goal) = Del(data, goal)
            /\ registry' = registry]_vars

\* a finished run that made the bucket of "Improve io" next to an untouched
\* bucket of "demo"
C34_Witness ==
    /\ pc = "Completed"
    /\ goal = "Improve io"
    /\ Has(data0, "demo")
    /\ IsList(data0.val["demo"])
    /\ Has(data, "demo")
    /\ data.val["demo"] = data0.val["demo"]
    /\ ~Has(data0, "Improve io")
    /\ Has(data, "Improve io")

\* C36: when the plan is validated model output, not the fallback, and the
\* registry is the one it was validated against, no executed step fails at
\* resolve: each step's action resolves to the capability registered under
\* that name, and each step that went to the registry had its capability called.
C36_ValidatedPlanResolves ==
    (/\ pc \in {"Executing", "Completed", "Aborted"}
     /\ \E outcome \in LlmOutcomes :
          LET steps == ParsePlanResponse(CallModel(outcome))
          IN  /\ ~steps.raised
              /\ plan = ValidateSteps(steps.value, ListSkills(registry)))
      => \A k \in 1..Len(plan) :
           /\ plan[k].action \in DOMAIN registry
           /\ Resolve(registry, plan[k].action)
                = [raised |-> FALSE, value |-> registry[plan[k].action]]
           /\ ~Unresolved(k)

\* a finished run of a validated plan of two steps, both called
C36_Witness ==
    /\ pc = "Completed"
    /\ Len(plan) >= 2
    /\ plan # GetFallbackPlan(goal)
    /\ \E outcome \in LlmOutcomes : plan = PlanSteps(registry, goal, outcome)
    /\ \A k \in 1..Len(plan) : Logged("resolve", k) /\ Logged("invoke", k)

\* C35 as stated: after a run_agent(goal) that executed a step, and with no
\* clear_goal(goal) since (the bucket still starts with what that run left),
\* the context recalled by the next run_agent(goal) is not the sentinel and its
\* last line describes the last step the earlier run executed.
C35_AsStated ==
    (/\ pc \in {"Planning", "Executing", "Completed", "Aborted"}
     /\ call # NoValue
     /\ call.goal = goal
     /\ call.executed > 0
     /\ IsPrefix(Bucket(call.data, goal), Bucket(data0, goal)))
      => LET e == Bucket(data0, goal)[Len(Bucket(data0, goal))]
             line == ContextLine(e)
             n == Len(prior_context)
         IN  /\ prior_context # NoPriorContext
             /\ e.step = call.step
             /\ n >= Len(line)
             /\ SubSeq(prior_context, n - Len(line) + 1, n) = line
             /\ n = Len(line) \/ prior_context[n - Len(line)] = "\n"

\* C35: after a run_agent(goal) that executed a step, and with neither a
\* clear_goal(goal) nor a memory.store(goal, ...) since (the bucket is what
\* that run left), the context recalled by the next run_agent(goal), which is
\* the one handed to the planner, is not the sentinel and its last line
\* describes the last step the earlier run executed.
C35_Feedback ==
    (/\ pc \in {"Planning", "Executing", "Completed", "Aborted"}
     /\ call # NoValue
     /\ call.goal = goal
     /\ call.executed > 0
     /\ Bucket(call.data, goal) = Bucket(data0, goal))
      => LET e == Bucket(data0, goal)[Len(Bucket(data0, goal))]
             line == ContextLine(e)
             n == Len(prior_context)
         IN  /\ prior_context # NoPriorContext
             /\ e.step = call.step
             /\ n >= Len(line)
             /\ SubSeq(prior_context, n - Len(line) + 1, n) = line
             /\ n = Len(line) \/ prior_context[n - Len(line)] = "\n"

\* the second run for a goal is at its planner call with a context of two
\* lines, the first run having executed two steps
C35_Witness ==
    /\ pc = "Planning"
    /\ call # NoValue
    /\ call.goal = goal
    /\ call.executed = 2
    /\ Bucket(call.data, goal) = Bucket(data0, goal)
    /\ Len(Bucket(data0, goal)) = 2
    /\ Len(prior_context) > Len(ContextLine(Bucket(data0, goal)[2]))

-----------------------------------------------------------------------------
(* Memory: buckets, persistence and reads *)

\* C37: a Memory that started empty holds, after any stores and clear_goals,
\* only non-empty buckets: total_entries >= total_goals, and a goal is among
\* get_all_goals() exactly when retrieve(goal) is non-empty.
C37_BucketsNonEmpty ==
    /\ \A g \in DOMAIN data.val : IsList(data.val[g]) /\ data.val[g].entries # <<>>
    /\ GetStats(data).value.total_entries >= GetStats(data).value.total_goals
    /\ \A g \in Goals :
         (\E k \in 1..Len(GetAllGoals(data)) : GetAllGoals(data)[k] = g)
           <=> Retrieve(data, g).entries # <<>>

\* one goal was cleared, the other still holds its two entries
C37_Witness ==
    /\ call.op = "clear_goal"
    /\ call.removed
    /\ GetStats(data).value = [total_goals |-> 1, total_entries |-> 2]
    /\ Retrieve(data, call.goal).entries = <<>>

\* C40: retrieve, get_recent_context and get_stats are read-only: each leaves
\* self.data and the persisted document as they were; a retrieve or
\* get_recent_context of a goal that has no bucket creates none, so
\* total_goals stays what it was.
C40_ReadsReadOnly ==
    [][call'.op \in {"retrieve", "get_recent_context", "get_stats"}
         => /\ data' = data
            /\ disk' = disk
            /\ GetStats(data').value.total_goals = GetStats(data).value.total_goals
            /\ call'.op # "get_stats" => (Has(data', call'.goal) <=> Has(data, call'.goal))]_vars

\* a goal without a bucket was retrieved next to a goal that has one, and the
\* store still has the one bucket the document has
C40_Witness ==
    /\ call.op \in {"retrieve", "get_recent_context"}
    /\ ~Has(data, call.goal)
    /\ GetStats(data).value.total_goals = 1
    /\ disk = Doc(data)

\* C38: persistence catches up: when the store holds entries the document
\* lacks because a save failed, the next store or bucket-removing clear_goal
\* whose save succeeds leaves the document equal to the whole store, the
\* entries whose own save had failed included.
C38_CatchesUp ==
    [][(/\ call'.op \in {"store", "clear_goal"}
        /\ call'.saved = "ok"
        /\ Construct(disk) # data)
         => /\ disk' = Doc(data')
            /\ Construct(disk') = data'
            /\ \A g \in Goals :
                 IF call'.op = "clear_goal" /\ g = call'.goal
                 THEN ~Has(Construct(disk'), g)
                 ELSE IsPrefix(Bucket(data, g), Bucket(Construct(disk'), g))]_vars

\* all three stores went to one goal, the save of the first or second failed,
\* and the document holds the three entries
C38_Witness ==
    /\ call.op = "store"
    /\ call.saved = "ok"
    /\ faults_left = 0
    /\ Len(Bucket(Construct(disk), call.goal)) = MemStores
    /\ Bucket(Construct(disk), call.goal)[1].timestamp = 0

\* C39 as stated: a save that fails, at open or part-way through the write,
\* destroys nothing that was durable: a Memory constructed from the document
\* afterwards holds what one constructed before the failing call held.
C39_AsStated ==
    [][(call'.op \in {"store", "clear_goal"} /\ call'.saved \in {"open_failed", "write_failed"})
         => Construct(disk') = Construct(disk)]_vars

\* C31: store takes no lock and never reads the document again: with two
\* Memory instances on one document, each store whose save succeeds rewrites
\* the whole document from the storing instance's own copy and leaves the other
\* instance's copy alone, so an entry one instance stored and persisted can be
\* missing from the document after the other has stored.
C31_RewritesFromOwnCopy ==
    [][/\ (call'.op = "store" /\ call'.saved = "ok")
            => /\ data' = StoreAppend(data, call'.goal,
                                      Entry(call'.step, call'.text, clock))
               /\ disk' = Doc(data')
               /\ data0' = data0
       /\ (call'.op = "other.store" /\ call'.saved = "ok")
            => /\ data0' = StoreAppend(data0, call'.goal,
                                       Entry(call'.step, call'.text, clock))
               /\ disk' = Doc(data0')
               /\ data' = data]_vars

\* the lost update: no save has failed, the first instance stored last, and an
\* entry the second instance stored is not in the document
C31_Witness ==
    /\ call.op = "store"
    /\ call.saved = "ok"
    /\ faults_left = MaxSaveFaults
    /\ disk = Doc(data)
    /\ \E g \in Goals :
         \E k \in 1..Len(Bucket(data0, g)) :
           \A j \in 1..Len(Bucket(Construct(disk), g)) :
             Bucket(Construct(disk), g)[j] # Bucket(data0, g)[k]

====
